---- MODULE Spec2Model ----
(***************************************************************************)
(* Model of pymatgen/io/abinitio/workflow.py: the Workflow task container  *)
(* and scheduler (register, check_status, fetch_task_to_run, status) and   *)
(* the IterativeWork loop (next_task, submit_tasks).                       *)
(*                                                                         *)
(* The Task class (pymatgen/io/abinitio/task.py) is not part of the        *)
(* sources at hand; its contract (status values, can_run, is_completed,    *)
(* check_status, start, wait) is modelled from the specification text.     *)
(***************************************************************************)
EXTENDS Integers, Sequences, FiniteSets, TLC

VARIABLES
    tasks,        \* Workflow._tasks: sequence of task records
    links_dict,   \* Workflow._links_dict: task id -> links registered for it
    other,        \* status of a task registered in another Workflow
    promoted,     \* ids passed to set_status(S_READY) by the last operation
    last,         \* the last operation and what it returned or raised
    niter,        \* IterativeWork.niter
    max_niter,    \* IterativeWork.max_niter
    generator,    \* job specifications left in IterativeWork.strategy_generator
    pc,           \* position of IterativeWork.submit_tasks
    run,          \* what the current run of submit_tasks has done so far
    args,         \* arguments of a call of a convergence routine
    outcome,      \* what that call returned or raised
    managers,     \* the manager objects and who holds a reference to which
    results       \* the WorkFlowResults object returned by get_results

vars == <<tasks, links_dict, other, promoted, last, niter, max_niter, generator, pc, run,
          args, outcome, managers, results>>

schedVars == <<tasks, links_dict, other, promoted, last>>
iterVars  == <<niter, max_niter, generator, pc, run>>
convVars  == <<args, outcome>>
objVars   == <<managers, results>>

----------------------------------------------------------------------------
(* Bounds *)

\* Tasks registered in the Workflow driven by the scheduler operations.
MaxTasks == 2

\* Largest iteration budget (max_niter) an IterativeWork is built with.
MaxBudget == 2

\* Most job specifications the strategy generator yields.
MaxGen == 3

\* Most tasks registered directly in an IterativeWork.
MaxDirect == 1

\* Most runs of IterativeWork.submit_tasks.
MaxRuns == 2

\* Largest number of CPUs a manager is configured with.
MaxCpus == 2

----------------------------------------------------------------------------
(* Python's None, and a value that is present *)

None == <<>>

Some(x) == <<x>>

----------------------------------------------------------------------------
(* Manager objects. heap[id] is the number of CPUs object id is configured  *)
(* with; wf is the object held by Workflow.manager, task[i] the object held *)
(* by the i-th task; every other object is held by the caller only.         *)

\* Workflow.__init__(workdir, manager): self.manager = manager.deepcopy()
InitialManagers == [heap |-> <<1, 1>>, wf |-> 2, task |-> <<>>]

\* manager.deepcopy(): a new object with the same configuration.
deepcopy_alias(mgrs, id) == [heap |-> mgrs.heap, ref |-> id]

deepcopy(mgrs, id) == [heap |-> Append(mgrs.heap, mgrs.heap[id]), ref |-> Len(mgrs.heap) + 1]

\* manager = self.manager.deepcopy() if manager is None else manager.deepcopy()
\* and the new task keeps that copy.
ManagersAfter(mgrs, manager) ==
    LET copy == deepcopy(mgrs, IF manager = None THEN mgrs.wf ELSE manager[1])
    IN  [mgrs EXCEPT !.heap = copy.heap, !.task = Append(@, copy.ref)]

----------------------------------------------------------------------------
(* Task status, ordered as integers *)

S_INIT  == 0
S_READY == 1
S_SUB   == 2
S_RUN   == 3
S_DONE  == 4
S_ERROR == 5
S_OK    == 6

Status == {S_INIT, S_READY, S_SUB, S_RUN, S_DONE, S_ERROR, S_OK}

\* Statuses a task can read from its process once it has been submitted.
ProcStatus == {S_SUB, S_RUN, S_DONE, S_ERROR, S_OK}

\* Task.check_status(): refresh the status from the underlying process. The
\* process moves on by itself, so a refresh can read any status at or after
\* the one read before (S_SUB for a task that was submitted); S_OK and
\* S_ERROR are final, and a task without a process reads nothing.
RefreshChoices(t) ==
    IF t.proc = "none" \/ t.status \in {S_OK, S_ERROR}
    THEN {t.status}
    ELSE {s \in ProcStatus : s >= t.status}

\* What the refreshes of one pass over the tasks 1..n can read.
RECURSIVE RefreshOutcomes(_, _)
RefreshOutcomes(ts, n) ==
    IF n = 0
    THEN {<<>>}
    ELSE {Append(obs, s) : obs \in RefreshOutcomes(ts, n - 1),
                           s \in RefreshChoices(ts[n])}

\* Task.set_status(status)
set_status(ts, i, s) == [ts EXCEPT ![i].status = s]

\* Task.is_completed
is_completed(t) == t.status >= S_DONE

----------------------------------------------------------------------------
(* Link *)

\* Link(task): the node is a task of this Workflow or of another one.
Link(wf, id) == [wf |-> wf, id |-> id]

\* Link.status: the status of the node, read live.
LinkStatus(ts, l) ==
    IF l.wf = "self" THEN ts[l.id + 1].status ELSE other

\* Task.links_status
links_status(ts, i) == {LinkStatus(ts, l) : l \in ts[i].links}

\* all([stat == task.S_OK for stat in task.links_status])
all_ok(ts, i) == \A stat \in links_status(ts, i) : stat = S_OK

\* Task.can_run
can_run(ts, i) == ts[i].status = S_READY /\ all_ok(ts, i)

----------------------------------------------------------------------------
(* Workflow.check_status *)

\* First loop: every task refreshes its own status.
RefreshAll(ts, obs) == [i \in 1..Len(ts) |-> [ts[i] EXCEPT !.status = obs[i]]]

\* Guard of the second loop: status <= S_SUB and every link status is S_OK.
PromoteCond_strict(ts, i) == ts[i].status < S_SUB /\ all_ok(ts, i)

PromoteCond_done(ts, i) ==
    ts[i].status <= S_SUB /\ \A stat \in links_status(ts, i) : stat >= S_DONE

PromoteCond(ts, i) == ts[i].status <= S_SUB /\ all_ok(ts, i)

\* Second loop, in task order: r.ts are the tasks, r.set the ids set to READY.
RECURSIVE PromoteLoop(_, _)
PromoteLoop(r, i) ==
    IF i > Len(r.ts)
    THEN r
    ELSE IF PromoteCond(r.ts, i)
         THEN PromoteLoop([ts  |-> set_status(r.ts, i, S_READY),
                           set |-> r.set \cup {r.ts[i].task_id}], i + 1)
         ELSE PromoteLoop(r, i + 1)

\* The two loops in the other order: promotions decided before the refresh.
CheckStatus_stale(ts, obs) ==
    LET p == PromoteLoop([ts |-> ts, set |-> {}], 1)
    IN  [ts  |-> [i \in 1..Len(ts) |->
                    IF ts[i].task_id \in p.set
                    THEN [ts[i] EXCEPT !.status = S_READY]
                    ELSE [ts[i] EXCEPT !.status = obs[i]]],
         set |-> p.set]

CheckStatus(ts, obs) == PromoteLoop([ts |-> RefreshAll(ts, obs), set |-> {}], 1)

----------------------------------------------------------------------------
(* BaseWorkflow.fetch_task_to_run, after its call of check_status *)

NoTask == -1

\* for task in self: if task.can_run: return task
FirstRunnable_last(ts, i) ==
    IF \E j \in 1..Len(ts) : can_run(ts, j)
    THEN CHOOSE j \in 1..Len(ts) :
            can_run(ts, j) /\ \A k \in 1..Len(ts) : can_run(ts, k) => k <= j
    ELSE NoTask

RECURSIVE FirstRunnable(_, _)
FirstRunnable(ts, i) ==
    IF i > Len(ts) THEN NoTask
    ELSE IF can_run(ts, i) THEN i
    ELSE FirstRunnable(ts, i + 1)

\* all([task.is_completed for task in self])
AllCompleted_any(ts) == \E i \in 1..Len(ts) : is_completed(ts[i])

AllCompleted(ts) == \A i \in 1..Len(ts) : is_completed(ts[i])

\* What the scan returns or raises, with the warning it logs.
FetchOutcome(ts) ==
    LET f == FirstRunnable(ts, 1) IN
    IF f # NoTask
    THEN [kind |-> "task", val |-> ts[f].task_id, warn |-> FALSE]
    ELSE IF AllCompleted(ts)
         THEN [kind |-> "StopIteration", val |-> NoTask, warn |-> FALSE]
         ELSE [kind |-> "None", val |-> NoTask, warn |-> TRUE]

----------------------------------------------------------------------------
(* Workflow.status / get_all_status(only_min=True), after check_status *)

\* min(status_list); min of an empty list raises ValueError.
MinStatus_max(ts) ==
    IF Len(ts) = 0
    THEN [kind |-> "ValueError", val |-> NoTask, warn |-> FALSE]
    ELSE [kind |-> "status", warn |-> FALSE,
          val  |-> CHOOSE s \in {ts[i].status : i \in 1..Len(ts)} :
                      \A i \in 1..Len(ts) : s >= ts[i].status]

MinStatus(ts) ==
    IF Len(ts) = 0
    THEN [kind |-> "ValueError", val |-> NoTask, warn |-> FALSE]
    ELSE [kind |-> "status", warn |-> FALSE,
          val  |-> CHOOSE s \in {ts[i].status : i \in 1..Len(ts)} :
                      \A i \in 1..Len(ts) : s <= ts[i].status]

----------------------------------------------------------------------------
(* Workflow.register *)

\* task_id = len(self)
NextTaskId_off(ts) == Len(ts) + 1

NextTaskId(ts) == Len(ts)

\* os.path.join(self.workdir, "task_" + str(task_id))
TaskWorkdir(id) == <<"task_", id>>

\* The task built by task_factory / AbinitTask.from_input.
NewTask(id, links) ==
    [task_id |-> id, workdir |-> TaskWorkdir(id), status |-> S_INIT,
     links |-> links, proc |-> "none"]

\* if links: self._links_dict[task_id].extend(links)
LinksDictAfter(d, id, links) ==
    IF links = {}
    THEN d
    ELSE [k \in DOMAIN d \cup {id} |->
            IF k = id
            THEN (IF id \in DOMAIN d THEN d[id] ELSE {}) \cup links
            ELSE d[k]]

\* self._links_dict[k] (a defaultdict(list))
LinksOf(k) == IF k \in DOMAIN links_dict THEN links_dict[k] ELSE {}

\* The links a caller can hold: those returned by earlier register calls of
\* this Workflow, and one returned by register of another Workflow.
HeldLinks == {Link("self", k) : k \in 0..(Len(tasks) - 1)} \cup {Link("other", 0)}

Ret(op, kind, val, warn, links) ==
    [op |-> op, kind |-> kind, val |-> val, warn |-> warn, links |-> links]

----------------------------------------------------------------------------
(* Operations of the Workflow scheduler *)

\* Workflow.register(obj, links, manager): returns Link(task)
register_manager(links, manager) ==
    /\ LET id   == NextTaskId(tasks)
           task == NewTask(id, links)
       IN /\ tasks' = Append(tasks, task)
          /\ links_dict' = LinksDictAfter(links_dict, id, links)
          /\ last' = Ret("register", "Link", task.task_id, FALSE, links)
    /\ managers' = ManagersAfter(managers, manager)
    /\ promoted' = {}
    /\ UNCHANGED other

\* Workflow.register(obj, links) with the default manager=None
register(links) == register_manager(links, None)

\* Workflow.check_status()
check_status ==
    /\ \E obs \in RefreshOutcomes(tasks, Len(tasks)) :
       \E r \in {CheckStatus(tasks, obs)} :
          /\ tasks' = r.ts
          /\ promoted' = r.set
    /\ last' = Ret("check_status", "none", NoTask, FALSE, {})
    /\ UNCHANGED <<links_dict, other>>

\* BaseWorkflow.fetch_task_to_run()
fetch_task_to_run ==
    /\ \E obs \in RefreshOutcomes(tasks, Len(tasks)) :
       \E r \in {CheckStatus(tasks, obs)} :
       \E o \in {FetchOutcome(r.ts)} :
          /\ tasks' = r.ts
          /\ promoted' = r.set
          /\ last' = Ret("fetch_task_to_run", o.kind, o.val, o.warn, {})
    /\ UNCHANGED <<links_dict, other>>

\* Workflow.status
get_all_status ==
    /\ \E obs \in RefreshOutcomes(tasks, Len(tasks)) :
       \E r \in {CheckStatus(tasks, obs)} :
       \E o \in {MinStatus(r.ts)} :
          /\ tasks' = r.ts
          /\ promoted' = r.set
          /\ last' = Ret("status", o.kind, o.val, o.warn, {})
    /\ UNCHANGED <<links_dict, other>>

\* Task.start(): the task is submitted and its process queued.
TaskStart(ts, i) == [ts EXCEPT ![i].status = S_SUB, ![i].proc = "live"]

\* A caller starts a task that has not been submitted yet.
task_start(i) ==
    /\ tasks[i].status <= S_READY
    /\ tasks' = TaskStart(tasks, i)
    /\ promoted' = {}
    /\ last' = Ret("start", "none", tasks[i].task_id, FALSE, {})
    /\ UNCHANGED <<links_dict, other>>

\* The task of the other Workflow ends, well or badly.
other_progress ==
    /\ other = S_INIT
    /\ other' \in {S_OK, S_ERROR}
    /\ promoted' = {}
    /\ last' = Ret("other", "none", NoTask, FALSE, {})
    /\ UNCHANGED <<tasks, links_dict>>

Init ==
    /\ tasks = <<>>
    /\ links_dict = <<>>
    /\ other = S_INIT
    /\ promoted = {}
    /\ last = Ret("init", "none", NoTask, FALSE, {})
    /\ niter = 0
    /\ max_niter = 0
    /\ generator = 0
    /\ pc = "idle"
    /\ run = [n |-> 0, direct |-> 0, registered |-> 0, started |-> 0, result |-> "none",
              exit |-> "none"]
    /\ args = <<>>
    /\ outcome = <<>>
    /\ managers = InitialManagers
    /\ results = <<>>

Next ==
    \/ /\ Len(tasks) < MaxTasks
       /\ \E links \in SUBSET HeldLinks : register(links)
       /\ UNCHANGED <<iterVars, convVars, results>>
    \/ check_status /\ UNCHANGED <<iterVars, convVars, objVars>>
    \/ fetch_task_to_run /\ UNCHANGED <<iterVars, convVars, objVars>>
    \/ get_all_status /\ UNCHANGED <<iterVars, convVars, objVars>>
    \/ \E i \in 1..Len(tasks) : task_start(i) /\ UNCHANGED <<iterVars, convVars, objVars>>
    \/ other_progress /\ UNCHANGED <<iterVars, convVars, objVars>>

Spec == Init /\ [][Next]_vars

----------------------------------------------------------------------------
(* IterativeWork *)

\* if self.niter > self.max_niter > 0: break
BudgetSpent_ge(n, m) == n >= m /\ m > 0

BudgetSpent(n, m) == n > m /\ m > 0

\* Task.wait(): blocks until the process has ended; the status read then.
WaitStatus == {S_DONE, S_ERROR, S_OK}

\* Task.wait() that returns while the process is still running.
TaskWait_nonblocking(ts, i) == {set_status(ts, i, s) : s \in WaitStatus \cup {S_RUN}}

\* The tasks after wait() has returned for task i.
TaskWait(ts, i) == {set_status(ts, i, s) : s \in WaitStatus}

Ended(result) == [run EXCEPT !.result = result]

\* A direct call of register on the IterativeWork, outside submit_tasks.
iw_register ==
    /\ pc \in {"idle", "done"}
    /\ run.direct < MaxDirect
    /\ register({})
    /\ run' = [run EXCEPT !.direct = @ + 1]
    /\ UNCHANGED <<niter, max_niter, generator, pc>>

\* submit_tasks is entered: self.niter = 1
iw_submit_tasks ==
    /\ pc \in {"idle", "done"}
    /\ run.n < MaxRuns
    /\ niter' = 1
    /\ run' = [run EXCEPT !.n = @ + 1, !.registered = 0, !.started = 0,
                           !.result = "running", !.exit = "none"]
    /\ pc' = "loop"
    /\ UNCHANGED <<schedVars, max_niter, generator>>

\* Head of the loop: the iteration budget.
iw_loop ==
    /\ pc = "loop"
    /\ IF BudgetSpent(niter, max_niter)
       THEN pc' = "done" /\ run' = Ended("normal")
       ELSE pc' = "next" /\ UNCHANGED run
    /\ UNCHANGED <<schedVars, niter, max_niter, generator>>

\* next_task(): pull a job specification, register it, assert len(self) == niter.
iw_next_task ==
    /\ pc = "next"
    /\ IF generator = 0
       THEN /\ pc' = "done"
            /\ run' = Ended("normal")
            /\ UNCHANGED <<schedVars, generator, managers>>
       ELSE /\ generator' = generator - 1
            /\ register({})
            /\ IF Len(tasks') = niter
               THEN /\ pc' = "start"
                    /\ run' = [run EXCEPT !.registered = @ + 1]
               ELSE /\ pc' = "done"
                    /\ run' = [run EXCEPT !.registered = @ + 1,
                                          !.result = "AssertionError"]
    /\ UNCHANGED <<niter, max_niter>>

\* task.start() on self[-1]
iw_start ==
    /\ pc = "start"
    /\ tasks' = TaskStart(tasks, Len(tasks))
    /\ run' = [run EXCEPT !.started = @ + 1]
    /\ pc' = "wait"
    /\ UNCHANGED <<links_dict, other, promoted, last, niter, max_niter, generator>>

\* task.wait() returns
iw_wait ==
    /\ pc = "wait"
    /\ tasks' \in TaskWait(tasks, Len(tasks))
    /\ pc' = "exit"
    /\ UNCHANGED <<links_dict, other, promoted, last, niter, max_niter, generator, run>>

\* if data["exit"]: break
ExitBreaks_inverted(exit) == ~exit

ExitBreaks(exit) == exit

\* The flag returned by the exit_iteration hook, as kept in run.exit.
Flag(exit) == IF exit THEN "True" ELSE "False"

\* data = self.exit_iteration(); if data["exit"]: break; self.niter += 1
iw_exit_iteration ==
    /\ pc = "exit"
    /\ \E exit \in BOOLEAN :
         IF ExitBreaks(exit)
         THEN /\ pc' = "done"
              /\ run' = [run EXCEPT !.result = "normal", !.exit = Flag(exit)]
              /\ UNCHANGED niter
         ELSE /\ pc' = "loop"
              /\ niter' = niter + 1
              /\ run' = [run EXCEPT !.exit = Flag(exit)]
    /\ UNCHANGED <<schedVars, max_niter, generator>>

InitIter ==
    /\ tasks = <<>>
    /\ links_dict = <<>>
    /\ other = S_INIT
    /\ promoted = {}
    /\ last = Ret("init", "none", NoTask, FALSE, {})
    /\ niter = 0
    /\ max_niter \in -1..MaxBudget
    /\ generator \in 0..MaxGen
    /\ pc = "idle"
    /\ run = [n |-> 0, direct |-> 0, registered |-> 0, started |-> 0, result |-> "none",
              exit |-> "none"]
    /\ args = <<>>
    /\ outcome = <<>>
    /\ managers = InitialManagers
    /\ results = <<>>

NextIter ==
    \/ iw_register /\ UNCHANGED <<convVars, results>>
    \/ iw_submit_tasks /\ UNCHANGED <<convVars, objVars>>
    \/ iw_loop /\ UNCHANGED <<convVars, objVars>>
    \/ iw_next_task /\ UNCHANGED <<convVars, results>>
    \/ iw_start /\ UNCHANGED <<convVars, objVars>>
    \/ iw_wait /\ UNCHANGED <<convVars, objVars>>
    \/ iw_exit_iteration /\ UNCHANGED <<convVars, objVars>>

SpecIter == InitIter /\ [][NextIter]_vars

----------------------------------------------------------------------------
(* Properties of the scheduler *)

Ids == 1..Len(tasks)

\* The last operation ran check_status.
Checked == last.op \in {"check_status", "fetch_task_to_run", "status"}

Fetched == last.op = "fetch_task_to_run"

Runnable == {i \in Ids : can_run(tasks, i)}

Blocked(i) == \E stat \in links_status(tasks, i) : stat # S_OK

\* C1, as stated: check_status sets a task to READY if and only if every task
\* its Links reference has status OK (a task without Links counts as all OK).
C1_ReadyIffLinksOk ==
    Checked => \A i \in Ids : tasks[i].task_id \in promoted <=> all_ok(tasks, i)

\* C1, amended: check_status sets a task to READY if and only if the status
\* of the task is at most SUB and every task its Links reference has status
\* OK; a task with an upstream status other than OK is never set to READY.
C1_ReadyIffNotPastSubAndLinksOk ==
    Checked =>
        \A i \in Ids :
            /\ tasks[i].task_id \in promoted <=>
                   (tasks[i].status <= S_SUB /\ all_ok(tasks, i))
            /\ tasks[i].task_id \in promoted => tasks[i].status = S_READY
            /\ Blocked(i) => tasks[i].task_id \notin promoted

\* A check_status promoted a task with Links and left a blocked one alone.
C1_Witness ==
    /\ Checked
    /\ \E i \in Ids : tasks[i].task_id \in promoted /\ tasks[i].links # {}
    /\ \E i \in Ids : tasks[i].task_id \notin promoted /\ Blocked(i)
                      /\ tasks[i].status <= S_SUB

\* C2: fetch_task_to_run raises StopIteration if and only if, after its
\* check_status, no task can run and every task is completed; when no task
\* can run and some task is not completed it returns None with a warning.
C2_ExhaustionIffAllCompleted ==
    Fetched =>
        LET completed == \A i \in Ids : is_completed(tasks[i]) IN
        /\ last.kind = "StopIteration" <=> (Runnable = {} /\ completed)
        /\ (Runnable = {} /\ ~completed) => (last.kind = "None" /\ last.warn)
        /\ last.kind = "None" => (Runnable = {} /\ ~completed)

\* fetch_task_to_run raised StopIteration on two tasks, one of them failed.
C2_Witness ==
    /\ Fetched /\ last.kind = "StopIteration"
    /\ Len(tasks) = 2
    /\ \E i \in Ids : tasks[i].status = S_ERROR
    /\ \E i \in Ids : tasks[i].status = S_OK

\* C3: a task returned by fetch_task_to_run is the task of smallest id among
\* those that can run after the check_status of the call, and a second call
\* on an unchanged status snapshot returns the same task.
C3_SmallestRunnable ==
    Fetched =>
        /\ Runnable # {} => last.kind = "task"
        /\ last.kind = "task" =>
              \E i \in Runnable :
                  /\ last.val = tasks[i].task_id
                  /\ \A j \in Runnable : tasks[i].task_id <= tasks[j].task_id

C3_SameOnSameSnapshot ==
    (Fetched /\ last'.op = "fetch_task_to_run" /\ tasks' = tasks /\ other' = other)
        => (last'.kind = last.kind /\ last'.val = last.val)

C3_FirstRunnableReturned == []C3_SmallestRunnable /\ [][C3_SameOnSameSnapshot]_vars

\* fetch_task_to_run returned task 0 while task 1 could run as well.
C3_Witness ==
    /\ Fetched /\ last.kind = "task" /\ last.val = 0
    /\ Cardinality(Runnable) = 2

\* C4: the status of a task never moves backward in the order
\* INIT < READY < SUB < RUN < DONE < OK, except by entering ERROR; no call of
\* check_status lowers the status of a task.
C4_StatusNeverLowered ==
    [][\A i \in Ids : \/ tasks'[i].status >= tasks[i].status
                      \/ tasks'[i].status = S_ERROR]_vars

\* C5, as stated: when fetch_task_to_run returns None, every task that is not
\* completed has an upstream Link whose status is not OK.
C5_NoneOnlyWhenBlocked ==
    (Fetched /\ last.kind = "None") =>
        \A i \in Ids : ~is_completed(tasks[i]) => Blocked(i)

\* C5, amended: when fetch_task_to_run returns None, every task that is not
\* completed is running (status RUN) or has an upstream Link whose status is
\* not OK.
C5_NoneOnlyWhenBlockedOrRunning ==
    (Fetched /\ last.kind = "None") =>
        \A i \in Ids :
            ~is_completed(tasks[i]) => (tasks[i].status = S_RUN \/ Blocked(i))

\* fetch_task_to_run returned None with a running task and a task blocked on it.
C5_Witness ==
    /\ Fetched /\ last.kind = "None"
    /\ \E i \in Ids : tasks[i].status = S_RUN /\ ~Blocked(i)
    /\ \E i \in Ids : tasks[i].status = S_INIT /\ Blocked(i)

\* Task i has a Link to a task that ended in ERROR.
HasFailedProducer(i) == \E stat \in links_status(tasks, i) : stat = S_ERROR

SomeTaskFailed == other = S_ERROR \/ \E i \in Ids : tasks[i].status = S_ERROR

Returned(i) == Fetched /\ last.kind = "task" /\ last.val = tasks[i].task_id

\* While a producer is in ERROR, no task with a Link to it is set to READY,
\* is READY or is returned by fetch_task_to_run.
C6_DependentsBlocked ==
    \A i \in Ids :
        HasFailedProducer(i) =>
            /\ tasks[i].task_id \notin promoted
            /\ tasks[i].status # S_READY
            /\ ~Returned(i)

\* With a failed task around, the other tasks are promoted and returned as usual.
C6_SiblingsGoOn ==
    SomeTaskFailed =>
        /\ Checked =>
              \A i \in Ids :
                  (tasks[i].status <= S_SUB /\ all_ok(tasks, i))
                      => (tasks[i].task_id \in promoted /\ tasks[i].status = S_READY)
        /\ Fetched =>
              /\ last.kind \in {"task", "None", "StopIteration"}
              /\ Runnable # {} => \E i \in Runnable : Returned(i)

\* ERROR is final.
C6_ErrorStays ==
    /\ other = S_ERROR => other' = S_ERROR
    /\ \A i \in Ids : tasks[i].status = S_ERROR => tasks'[i].status = S_ERROR

\* C6: once a task has ended in ERROR, each task with a Link to it is never
\* set to READY and never returned by fetch_task_to_run in any later state,
\* while tasks that do not depend on it are still promoted and returned.
C6_FailureBlocksDependentsOnly ==
    []C6_DependentsBlocked /\ []C6_SiblingsGoOn /\ [][C6_ErrorStays]_vars

\* A producer failed, its dependent stays at INIT and a sibling was returned.
C6_Witness ==
    \E i, j \in Ids :
        /\ HasFailedProducer(i) /\ tasks[i].status = S_INIT
        /\ ~HasFailedProducer(j) /\ Returned(j) /\ tasks[j].task_id \in promoted

\* C7: each Link stored for task id t references a task of the same Workflow
\* with an id strictly smaller than t.
C7_LinksPointBackward ==
    \A k \in DOMAIN links_dict :
        \A l \in links_dict[k] : l.wf = "self" /\ l.id < k

\* The task at position i (counted from 0) has id i and directory task_i.
C8_IdIsPosition ==
    \A i \in Ids :
        tasks[i].task_id = i - 1 /\ tasks[i].workdir = <<"task_", i - 1>>

\* A step that changes the number of tasks is one register call: it appends
\* one task with the next id, keeps the earlier tasks, stores the supplied
\* links under the new id and returns a Link to the new task.
C8_RegisterAppends ==
    Len(tasks') # Len(tasks) =>
        LET k == Len(tasks) IN
        /\ Len(tasks') = k + 1
        /\ SubSeq(tasks', 1, k) = tasks
        /\ tasks'[k + 1].task_id = k
        /\ tasks'[k + 1].workdir = <<"task_", k>>
        /\ tasks'[k + 1].links = last'.links
        /\ (IF k \in DOMAIN links_dict' THEN links_dict'[k] ELSE {}) = last'.links
        /\ \A j \in DOMAIN links_dict : links_dict'[j] = links_dict[j]
        /\ last'.op = "register" /\ last'.kind = "Link" /\ last'.val = k

\* C8: the k-th successful register call (k = 0, 1, ...) creates the task of
\* id k and directory task_k at position k, keeps every earlier task in
\* place, stores the supplied links under key k and returns a Link to the new
\* task; the task at position i always has id i.
C8_RegisterSequentialIds == []C8_IdIsPosition /\ [][C8_RegisterAppends]_vars

\* The second register call, with links, returned the Link of task 1.
C8_Witness ==
    /\ last.op = "register" /\ last.kind = "Link" /\ last.val = 1
    /\ Len(tasks) = 2 /\ last.links # {} /\ LinksOf(1) = last.links

\* The minimum of the task statuses, as a set (empty for no task).
MinOfStatuses ==
    {s \in {tasks[i].status : i \in Ids} : \A i \in Ids : s <= tasks[i].status}

\* No task is left that check_status would promote.
NothingLeftToPromote ==
    \A i \in Ids : (tasks[i].status <= S_SUB /\ all_ok(tasks, i)) => tasks[i].status = S_READY

\* C9, as stated: for every Workflow, Workflow.status runs check_status and
\* returns the minimum of the statuses of its tasks.
C9_StatusIsMinimum ==
    last.op = "status" =>
        /\ NothingLeftToPromote
        /\ last.kind = "status" /\ last.val \in MinOfStatuses

\* C9, amended: for every Workflow with at least one task, Workflow.status
\* runs check_status and returns the minimum of the statuses of its tasks,
\* which is at most the status of each task; with no task it raises ValueError.
C9_StatusIsMinimumOfNonEmpty ==
    last.op = "status" =>
        /\ NothingLeftToPromote
        /\ Len(tasks) > 0 =>
              /\ last.kind = "status" /\ last.val \in MinOfStatuses
              /\ \A i \in Ids : last.val <= tasks[i].status
        /\ Len(tasks) = 0 => last.kind = "ValueError"

\* Workflow.status returned the smaller of two different task statuses.
C9_Witness ==
    /\ last.op = "status" /\ last.kind = "status"
    /\ \E i, j \in Ids : tasks[i].status < tasks[j].status /\ last.val = tasks[i].status
    /\ promoted # {}

----------------------------------------------------------------------------
(* Properties of IterativeWork *)

RunEnded == pc = "done" /\ run.n > 0

\* C10: a run of submit_tasks stops normally (no error); with max_niter > 0
\* it has registered and started at most max_niter tasks.
C10_BudgetedRunEndsNormally ==
    RunEnded =>
        /\ run.result = "normal"
        /\ max_niter > 0 => (run.registered <= max_niter /\ run.started <= max_niter)

\* The same on an IterativeWork that held no task when its first run began.
IterFirstRunOnEmptyWork ==
    (RunEnded /\ run.n = 1 /\ Len(tasks) = run.registered) =>
        /\ run.result = "normal"
        /\ max_niter > 0 => (run.registered <= max_niter /\ run.started <= max_niter)

\* The step after exit_iteration: a true flag ends the run and leaves the
\* counter, a false flag adds exactly one to the counter and loops.
C11_FlagDecides ==
    pc = "exit" =>
        /\ run'.exit \in {"True", "False"}
        /\ run'.exit = "True" =>
              (pc' = "done" /\ run'.result = "normal" /\ niter' = niter)
        /\ run'.exit = "False" => (pc' = "loop" /\ niter' = niter + 1)
        /\ tasks' = tasks /\ generator' = generator
        /\ run'.registered = run.registered /\ run'.started = run.started

\* An exhausted generator ends the run without registering anything.
C11_ExhaustionEnds ==
    (pc = "next" /\ generator = 0) =>
        (pc' = "done" /\ run'.result = "normal" /\ tasks' = tasks /\ run' = Ended("normal"))

\* A run that has ended pulls, registers and starts nothing more.
C11_NothingAfterEnd ==
    (pc = "done" /\ run'.n = run.n) =>
        /\ generator' = generator
        /\ run'.registered = run.registered
        /\ run'.started = run.started

\* A job specification is pulled only by next_task, one at a time.
C11_PulledByNextTask ==
    generator' # generator => (pc = "next" /\ generator' = generator - 1)

C12_AssertionNeverFails ==
    /\ run.result # "AssertionError"
    /\ pc = "start" => (Len(tasks) = niter /\ tasks[Len(tasks)].task_id = niter - 1)

----------------------------------------------------------------------------
(* Convergence analysis: monotonic, check_conv and compute_hints.          *)
(* These are pure functions of their arguments. Numbers are integers, and  *)
(* quotients are kept as fractions [n, d] compared by cross-multiplication.*)
(* Each function has its own specification: Init draws the arguments into  *)
(* args, and the single action stores what the call produces in outcome.   *)

MaxLen == 3     \* longest sequence of values
MaxVal == 2     \* values range over 0..MaxVal
MaxTol == 2     \* tolerances range up to MaxTol
MaxAtol == 3    \* tolerances in meV range over 0..MaxAtol half-Hartree steps

Abs(x) == IF x < 0 THEN -x ELSE x

Sign(x) == IF x < 0 THEN -1 ELSE IF x > 0 THEN 1 ELSE 0

\* The quotient n / d (true division, d # 0).
Q(n, d) == [n |-> n, d |-> d]

\* x < y and x > y on quotients.
RLt(x, y) == Sign(x.d) * Sign(y.d) * x.n * y.d < Sign(x.d) * Sign(y.d) * y.n * x.d

RGt(x, y) == RLt(y, x)

RLe(x, y) == ~RLt(y, x)

\* The result of a call: a returned value or the exception it raises.
Returns(v) == [kind |-> "value", val |-> v]

Raises(e) == [kind |-> e]

NotCalled == [kind |-> "none"]

\* All sequences over S of length at most n.
SeqsUpTo(S, n) == UNION {[1..k -> S] : k \in 0..n}

Vals == 0..MaxVal

\* The scheduler and the iteration loop play no part in these calls.
NoTasks ==
    /\ tasks = <<>>
    /\ links_dict = <<>>
    /\ other = S_INIT
    /\ promoted = {}
    /\ last = Ret("init", "none", NoTask, FALSE, {})
    /\ niter = 0
    /\ max_niter = 0
    /\ generator = 0
    /\ pc = "idle"
    /\ run = [n |-> 0, direct |-> 0, registered |-> 0, started |-> 0, result |-> "none",
              exit |-> "none"]
    /\ managers = InitialManagers

NoWork == NoTasks /\ results = <<>>

(* monotonic(values, mode="<", atol=1.e-8) *)

\* abs(vp - v) > atol
Differ_ge(v, vp, atol) == Abs(vp - v) >= atol

Differ(v, vp, atol) == Abs(vp - v) > atol

\* The pair (v, vp) makes the scan return False: mode ">" wants vp > v,
\* mode "<" wants vp < v.
BadPair(v, vp, mode, atol) ==
    \/ mode = ">" /\ Differ(v, vp, atol) /\ vp <= v
    \/ mode = "<" /\ Differ(v, vp, atol) /\ vp >= v

monotonic(values, mode, atol) ==
    IF Len(values) = 1 THEN Returns(TRUE)
    ELSE IF mode \notin {">", "<"} THEN Raises("ValueError")
    ELSE Returns(\A i \in 1..(Len(values) - 1) : ~BadPair(values[i], values[i+1], mode, atol))

InitMonotonic ==
    /\ NoWork
    /\ args \in [values : SeqsUpTo(Vals, MaxLen), mode : {">", "<", "="}, atol : -1..MaxTol]
    /\ outcome = NotCalled

call_monotonic ==
    /\ outcome.kind = "none"
    /\ outcome' = monotonic(args.values, args.mode, args.atol)
    /\ UNCHANGED <<schedVars, iterVars, args, objVars>>

NextMonotonic == call_monotonic

SpecMonotonic == InitMonotonic /\ [][NextMonotonic]_vars

Called == outcome.kind # "none"

\* Some adjacent pair differs by more than atol and goes against the mode.
AgainstDirection ==
    \E i \in 1..(Len(args.values) - 1) :
        /\ Abs(args.values[i+1] - args.values[i]) > args.atol
        /\ \/ args.mode = ">" /\ args.values[i+1] <= args.values[i]
           \/ args.mode = "<" /\ args.values[i+1] >= args.values[i]

\* C18: for a valid mode, monotonic returns False if and only if some
\* adjacent pair (v, vp) differs by more than atol and goes against the
\* requested direction (vp <= v in increasing mode ">", vp >= v in decreasing
\* mode "<"); pairs that differ by at most atol never cause False.
C18_FalseIffPairAgainstDirection ==
    (Called /\ args.mode \in {">", "<"}) =>
        /\ outcome.kind = "value"
        /\ outcome.val = ~AgainstDirection

\* An increasing sequence is rejected in decreasing mode, and a sequence with
\* a tie within atol is accepted in increasing mode.
C18_Witness ==
    /\ Called
    /\ \/ /\ args.values = <<0, 1, 2>> /\ args.mode = "<" /\ args.atol = 0
          /\ outcome = Returns(FALSE)
       \/ /\ args.values = <<0, 1, 1>> /\ args.mode = ">" /\ args.atol = 0
          /\ outcome = Returns(TRUE)

\* C19: monotonic fails with an invalid-mode error for every mode other than
\* ">" and "<", for every input sequence, including sequences of length 0
\* and 1; it never returns True or False for an invalid mode.
C19_InvalidModeAlwaysFails ==
    (Called /\ args.mode \notin {">", "<"}) => outcome.kind = "ValueError"

(* check_conv(values, tol, min_numpts=1, mode="abs", vinf=None) *)

\* vdiff = [abs(v - vinf) for v in values], or the same divided by vinf.
Deviations(values, mode, ref) ==
    [i \in 1..Len(values) |->
        IF mode = "abs" THEN Q(Abs(values[i] - ref), 1) ELSE Q(Abs(values[i] - ref), ref)]

\* for i in range(numpts-1, -1, -1): if vdiff[i] > tol: break
\* The value of i (counted from 0) when the loop is left.
RECURSIVE ScanDown(_, _, _)
ScanDown(vdiff, tol, i) ==
    IF RGt(vdiff[i+1], tol) THEN i
    ELSE IF i = 0 THEN 0
    ELSE ScanDown(vdiff, tol, i - 1)

\* (numpts > min_numpts) and vdiff[-2] < tol; vdiff[-2] is unguarded.
EnoughPoints(numpts, min_numpts) == numpts > min_numpts

PenultimateWithin(d, tol) == RLt(d, tol)

\* if (numpts - i - 1) < min_numpts: i = -2
TooFewTrailing(numpts, i, min_numpts) == numpts - i - 1 < min_numpts

check_conv(values, tol, min_numpts, mode, vinf) ==
    IF vinf = None /\ Len(values) = 0 THEN Raises("IndexError")
    ELSE IF mode \notin {"abs", "rel"} THEN Raises("ValueError")
    ELSE IF mode = "rel" /\ Len(values) > 0
            /\ (IF vinf = None THEN values[Len(values)] ELSE vinf[1]) = 0
         THEN Raises("ZeroDivisionError")
    ELSE IF ~EnoughPoints(Len(values), min_numpts) THEN Returns(-1)
    ELSE IF Len(values) < 2 THEN Raises("IndexError")
    ELSE LET ref == IF vinf = None THEN values[Len(values)] ELSE vinf[1]
             vdiff == Deviations(values, mode, ref)
             numpts == Len(vdiff)
         IN  IF ~PenultimateWithin(vdiff[numpts - 1], tol) THEN Returns(-1)
             ELSE LET i == ScanDown(vdiff, tol, numpts - 1)
                  IN  IF TooFewTrailing(numpts, i, min_numpts)
                      THEN Returns(-1)
                      ELSE Returns(i + 1)

InitCheckConv ==
    /\ NoWork
    /\ args \in [values : SeqsUpTo(Vals, MaxLen), tol : 0..MaxTol, min_numpts : 0..MaxLen,
                 mode : {"abs", "rel", "log"}, vinf : {None} \cup {Some(v) : v \in Vals}]
    /\ outcome = NotCalled

call_check_conv ==
    /\ outcome.kind = "none"
    /\ outcome' = check_conv(args.values, Q(args.tol, 1), args.min_numpts, args.mode, args.vinf)
    /\ UNCHANGED <<schedVars, iterVars, args, objVars>>

NextCheckConv == call_check_conv

SpecCheckConv == InitCheckConv /\ [][NextCheckConv]_vars

\* The reference value of the call, and the deviations d[0..numpts-1] from it.
RefValue ==
    IF args.vinf = None THEN args.values[Len(args.values)] ELSE args.vinf[1]

RefIsZero ==
    \/ args.vinf # None /\ args.vinf[1] = 0
    \/ args.vinf = None /\ Len(args.values) > 0 /\ args.values[Len(args.values)] = 0

NumPts == Len(args.values)

Dev(j) == Deviations(args.values, args.mode, RefValue)[j + 1]

Tol == Q(args.tol, 1)

\* Every deviation d[j] with j >= i is within tolerance.
WithinFrom(i) == \A j \in i..(NumPts - 1) : RLe(Dev(j), Tol)

\* The leftmost index from which every deviation is within tolerance.
LeftmostWithin ==
    CHOOSE i \in 0..NumPts : WithinFrom(i) /\ \A k \in 0..(i - 1) : ~WithinFrom(k)

Converged == outcome.kind = "value" /\ outcome.val # -1

\* C13: with the default reference (the last value), whenever check_conv
\* declares convergence it returns the leftmost index i such that every
\* deviation d[j] with j >= i is <= tol; when every point is within
\* tolerance it returns index 0.
C13_ReturnsLeftmostIndex ==
    (Called /\ args.vinf = None /\ Converged) => outcome.val = LeftmostWithin

\* C14: check_conv returns -1 whenever the second-to-last deviation is not
\* within tolerance (d[-2] > tol), and a sequence with more than min_numpts
\* points whose second-to-last deviation is within tolerance (d[-2] <= tol,
\* the boundary d[-2] = tol included) and which has at least min_numpts
\* trailing points within tolerance is not rejected.
C14_PenultimateGuard ==
    (Called /\ outcome.kind = "value" /\ NumPts >= 2) =>
        /\ RGt(Dev(NumPts - 2), Tol) => outcome.val = -1
        /\ ( /\ RLe(Dev(NumPts - 2), Tol)
             /\ NumPts > args.min_numpts
             /\ NumPts - LeftmostWithin >= args.min_numpts ) => outcome.val # -1

\* Some index has at least min_numpts trailing points, all within tolerance,
\* and the second-to-last deviation passes the guard of the code.
QualifyingIndexExists ==
    /\ NumPts >= 2
    /\ PenultimateWithin(Dev(NumPts - 2), Tol)
    /\ \E i \in 0..(NumPts - 1) : WithinFrom(i) /\ NumPts - i >= args.min_numpts

\* C15: check_conv never returns an index with fewer than min_numpts trailing
\* points, and it does not return -1 when an index with at least min_numpts
\* trailing points within tolerance exists and the second-to-last guard
\* holds (for instance exactly min_numpts points, all within tolerance).
C15_MinNumptsTrailingPoints ==
    (Called /\ outcome.kind = "value") =>
        /\ outcome.val # -1 => NumPts - outcome.val >= args.min_numpts
        /\ outcome.val = -1 => ~QualifyingIndexExists

\* C20: check_conv fails with an error, instead of returning, when mode is
\* neither "abs" nor "rel", and when mode is "rel" and the reference value
\* (vinf, or the last value by default) is zero.
C20_GuardErrors ==
    Called =>
        /\ args.mode \notin {"abs", "rel"} => outcome.kind # "value"
        /\ (args.mode = "rel" /\ RefIsZero) => outcome.kind # "value"

(* compute_hints(ecut_list, etotal, atols_mev, pseudo, min_numpts=1, stream) *)

\* 1000 * Ha_to_eV to the nearest integer: the number of meV in one Hartree.
Ha_to_meV == 27211

\* a / (1000 * Ha_to_eV): a tolerance in meV expressed in Hartree.
ToHartree(a) == Q(a, Ha_to_meV)

\* list[i] with Python's indexing: i counted from 0, negative i from the end.
InRange(list, i) == -Len(list) <= i /\ i < Len(list)

PyIndex(list, i) == IF i >= 0 THEN list[i + 1] ELSE list[Len(list) + i + 1]

\* exit = (ihigh != -1)
ExitFlag_low(ilow, inormal, ihigh) == ilow # -1

ExitFlag(ilow, inormal, ihigh) == ihigh # -1

\* The report once the three indices are known. idx is accidx, the index of
\* each tier as shown in the accuracy column of the table.
HintsData(ecut_list, ilow, inormal, ihigh) ==
    IF ExitFlag(ilow, inormal, ihigh)
    THEN IF InRange(ecut_list, ilow) /\ InRange(ecut_list, inormal) /\ InRange(ecut_list, ihigh)
         THEN Returns([exit |-> TRUE,
                       low |-> Some(PyIndex(ecut_list, ilow)),
                       normal |-> Some(PyIndex(ecut_list, inormal)),
                       high |-> Some(PyIndex(ecut_list, ihigh)),
                       idx |-> [low |-> ilow, normal |-> inormal, high |-> ihigh]])
         ELSE Raises("IndexError")
    ELSE Returns([exit |-> FALSE, low |-> None, normal |-> None, high |-> None,
                  idx |-> [low |-> ilow, normal |-> inormal, high |-> ihigh]])

compute_hints(ecut_list, etotal, atols_mev, min_numpts) ==
    IF Len(etotal) = 0 THEN Raises("IndexError")
    ELSE LET high == check_conv(etotal, ToHartree(atols_mev[3]), min_numpts, "abs", None)
             normal == check_conv(etotal, ToHartree(atols_mev[2]), 1, "abs", None)
             low == check_conv(etotal, ToHartree(atols_mev[1]), 1, "abs", None)
         IN  IF high.kind # "value" THEN high
             ELSE IF normal.kind # "value" THEN normal
             ELSE IF low.kind # "value" THEN low
             ELSE HintsData(ecut_list, low.val, normal.val, high.val)

\* Tolerances in meV: multiples of half a Hartree, rounded down.
AtolsMev == {k * (Ha_to_meV \div 2) : k \in 0..MaxAtol}

\* The cutoff energies of the iterations, one per total energy.
EcutList(n) == [i \in 1..n |-> 10 * i]

InitHints ==
    /\ NoWork
    /\ \E etotal \in SeqsUpTo(Vals, MaxLen) :
         args \in [ecut_list : {EcutList(Len(etotal))}, etotal : {etotal},
                   atols_mev : [1..3 -> AtolsMev], min_numpts : 0..MaxLen]
    /\ outcome = NotCalled

call_compute_hints ==
    /\ outcome.kind = "none"
    /\ outcome' = compute_hints(args.ecut_list, args.etotal, args.atols_mev, args.min_numpts)
    /\ UNCHANGED <<schedVars, iterVars, args, objVars>>

NextHints == call_compute_hints

SpecHints == InitHints /\ [][NextHints]_vars

\* What check_conv returns for the tolerance a (in meV) with min_numpts m.
TierConv(a, m) == check_conv(args.etotal, ToHartree(a), m, "abs", None)

OrderedTolerances ==
    args.atols_mev[1] >= args.atols_mev[2] /\ args.atols_mev[2] >= args.atols_mev[3]

TierReport(a) ==
    IF TierConv(a, args.min_numpts).val # -1
    THEN Some(PyIndex(args.ecut_list, TierConv(a, args.min_numpts).val))
    ELSE None

\* C17: for each of the three tiers independently, compute_hints reports
\* ecut_list[i] with i = check_conv(etotal, tolerance of the tier, min_numpts)
\* when that tier converged and None when it did not.
C17_TiersIndependent ==
    (Called /\ outcome.kind = "value") =>
        /\ outcome.val.low = TierReport(args.atols_mev[1])
        /\ outcome.val.normal = TierReport(args.atols_mev[2])
        /\ outcome.val.high = TierReport(args.atols_mev[3])

----------------------------------------------------------------------------
(* Accessors of a Workflow: read_etotal and the CPU counters.              *)

\* Workflow.all_done
all_done_some(ts) == \E i \in 1..Len(ts) : ts[i].status >= S_DONE

all_done(ts) == \A i \in 1..Len(ts) : ts[i].status >= S_DONE

\* Task.tot_ncpus: the CPUs the manager of the task is configured with.
tot_ncpus(mgrs, i) == mgrs.heap[mgrs.task[i]]

\* for task in self: if task.status in statuses: ncpus += task.tot_ncpus
RECURSIVE CountCpus(_, _, _, _)
CountCpus(ts, mgrs, statuses, n) ==
    IF n = 0 THEN 0
    ELSE CountCpus(ts, mgrs, statuses, n - 1)
         + (IF ts[n].status \in statuses THEN tot_ncpus(mgrs, n) ELSE 0)

ncpus_reserved(ts, mgrs) == CountCpus(ts, mgrs, {S_SUB}, Len(ts))

AllocatedStatuses_sub == {S_SUB}

AllocatedStatuses == {S_SUB, S_RUN}

ncpus_allocated(ts, mgrs) == CountCpus(ts, mgrs, AllocatedStatuses, Len(ts))

ncpus_inuse(ts, mgrs) == CountCpus(ts, mgrs, {S_RUN}, Len(ts))

\* Workflow.read_etotal(): val is the number of GSR files that were opened.
read_etotal ==
    /\ IF ~all_done(tasks)
       THEN last' = Ret("read_etotal", "WorkflowError", 0, FALSE, {})
       ELSE last' = Ret("read_etotal", "etotal", Len(tasks), FALSE, {})
    /\ promoted' = {}
    /\ UNCHANGED <<tasks, links_dict, other>>

\* One of the three CPU counters is read.
read_ncpus ==
    /\ \/ last' = Ret("ncpus_reserved", "value", ncpus_reserved(tasks, managers), FALSE, {})
       \/ last' = Ret("ncpus_allocated", "value", ncpus_allocated(tasks, managers), FALSE, {})
       \/ last' = Ret("ncpus_inuse", "value", ncpus_inuse(tasks, managers), FALSE, {})
    /\ promoted' = {}
    /\ UNCHANGED <<tasks, links_dict, other>>

\* Task.check_status() of one submitted task: its status is refreshed.
task_check_status(i) ==
    /\ tasks[i].proc = "live"
    /\ \E s \in RefreshChoices(tasks[i]) : tasks' = set_status(tasks, i, s)
    /\ promoted' = {}
    /\ last' = Ret("task.check_status", "none", tasks[i].task_id, FALSE, {})
    /\ UNCHANGED <<links_dict, other>>

\* The holder of a manager object changes its configuration.
set_ncpus(id, n) ==
    /\ managers' = [managers EXCEPT !.heap[id] = n]
    /\ promoted' = {}
    /\ last' = Ret("set_ncpus", "none", id, FALSE, {})
    /\ UNCHANGED <<tasks, links_dict, other>>

\* The manager argument of register: None or any manager object.
ManagerArgs == {None} \cup {Some(id) : id \in 1..Len(managers.heap)}

NextAccess ==
    \/ /\ Len(tasks) < MaxTasks
       /\ \E m \in ManagerArgs : register_manager({}, m)
       /\ UNCHANGED <<iterVars, convVars, results>>
    \/ \E i \in 1..Len(tasks) : task_start(i) /\ UNCHANGED <<iterVars, convVars, objVars>>
    \/ \E i \in 1..Len(tasks) : task_check_status(i) /\ UNCHANGED <<iterVars, convVars, objVars>>
    \/ \E i \in 1..Len(tasks), n \in 1..MaxCpus :
          set_ncpus(managers.task[i], n) /\ UNCHANGED <<iterVars, convVars, results>>
    \/ read_etotal /\ UNCHANGED <<iterVars, convVars, objVars>>
    \/ read_ncpus /\ UNCHANGED <<iterVars, convVars, objVars>>

SpecAccess == Init /\ [][NextAccess]_vars

\* C21: read_etotal fails with a WorkflowError, without reading any task
\* output and without changing any task status, whenever at least one task
\* has a status below DONE; it reads outputs only when every task is
\* finished (status >= DONE).
C21_ReadEtotalNeedsAllDone ==
    [][last'.op = "read_etotal" =>
         /\ tasks' = tasks
         /\ (\E i \in 1..Len(tasks) : tasks[i].status < S_DONE) =>
               (last'.kind = "WorkflowError" /\ last'.val = 0)
         /\ (\A i \in 1..Len(tasks) : tasks[i].status >= S_DONE) =>
               (last'.kind = "etotal" /\ last'.val = Len(tasks))]_vars

\* read_etotal was refused with one task finished and another still running.
C21_Witness ==
    /\ last.op = "read_etotal" /\ last.kind = "WorkflowError"
    /\ \E i, j \in 1..Len(tasks) : tasks[i].status = S_OK /\ tasks[j].status = S_RUN

\* The CPUs of the tasks whose status is in statuses, summed over the set.
RECURSIVE SumCpus(_)
SumCpus(S) ==
    IF S = {} THEN 0
    ELSE LET i == CHOOSE i \in S : TRUE
         IN  managers.heap[managers.task[i]] + SumCpus(S \ {i})

TasksIn(statuses) == {i \in 1..Len(tasks) : tasks[i].status \in statuses}

\* C27: in every state ncpus_reserved is the sum of tot_ncpus over the tasks
\* with status SUB, ncpus_inuse the sum over the tasks with status RUN and
\* ncpus_allocated the sum over the tasks with status SUB or RUN (hence
\* allocated = reserved + inuse); reading them changes no task status.
C27_CpuCountersAreSums ==
    [][/\ last'.op \in {"ncpus_reserved", "ncpus_inuse", "ncpus_allocated"} =>
            ncpus_allocated(tasks, managers)
               = ncpus_reserved(tasks, managers) + ncpus_inuse(tasks, managers)
       /\ last'.op = "ncpus_reserved" =>
            (last'.val = SumCpus(TasksIn({S_SUB})) /\ tasks' = tasks)
       /\ last'.op = "ncpus_inuse" =>
            (last'.val = SumCpus(TasksIn({S_RUN})) /\ tasks' = tasks)
       /\ last'.op = "ncpus_allocated" =>
            (last'.val = SumCpus(TasksIn({S_SUB, S_RUN})) /\ tasks' = tasks)]_vars

\* ncpus_allocated was read with one task submitted and one running, the two
\* configured with different numbers of CPUs.
C27_Witness ==
    /\ last.op = "ncpus_allocated" /\ last.val = 3
    /\ TasksIn({S_SUB}) # {} /\ TasksIn({S_RUN}) # {}

----------------------------------------------------------------------------
(* Registration with Links built by produces_exts and with a manager.      *)

\* Extensions a caller may ask for, and those a task exposes an output path for.
Exts == {"DEN", "WFK", "XYZ"}

DeclaredExts == {"DEN", "WFK"}

\* Task.odata_path_from_ext(ext) gives a path for the extensions the task
\* declares and fails for any other.
HasOutputPath_any(ext) == TRUE

HasOutputPath(ext) == ext \in DeclaredExts

\* Link.produces_exts(exts) = Link(self.node, exts): one Product per
\* extension, each needing node.odata_path_from_ext(ext).
produces_exts(link, exts) ==
    IF \A ext \in exts : HasOutputPath(ext)
    THEN Returns(link)
    ELSE Raises("UnknownProductError")

\* work.register(obj, links=link.produces_exts(exts), manager=manager) for
\* the Link returned when task k was registered. The links argument is
\* evaluated first: when it raises, register is not entered.
register_with_exts(k, exts, manager) ==
    /\ args' = [node |-> k, exts |-> exts, manager |-> manager]
    /\ \E l \in {produces_exts(Link("self", k), exts)} :
         IF l.kind = "value"
         THEN register_manager({l.val}, manager)
         ELSE /\ last' = Ret("produces_exts", l.kind, k, FALSE, {})
              /\ promoted' = {}
              /\ UNCHANGED <<tasks, links_dict, other, managers>>

\* work.register(obj, manager=manager), without links.
register_first(manager) ==
    /\ args' = [node |-> NoTask, exts |-> {}, manager |-> manager]
    /\ register_manager({}, manager)

NextRegister ==
    \/ /\ Len(tasks) < MaxTasks
       /\ \E m \in ManagerArgs : register_first(m)
       /\ UNCHANGED <<iterVars, outcome, results>>
    \/ /\ Len(tasks) < MaxTasks
       /\ \E k \in 0..(Len(tasks) - 1), exts \in SUBSET Exts, m \in ManagerArgs :
             register_with_exts(k, exts, m)
       /\ UNCHANGED <<iterVars, outcome, results>>
    \/ \E id \in 1..Len(managers.heap), n \in 1..MaxCpus :
          set_ncpus(id, n) /\ UNCHANGED <<iterVars, convVars, results>>

SpecRegister == Init /\ [][NextRegister]_vars

TaskManagers == {managers.task[i] : i \in 1..Len(managers.task)}

\* C26: every task receives its own copy of the manager configuration at
\* registration: no two tasks, and no task and the Workflow or the caller,
\* share one manager object, so a mutation of the Workflow's manager, of the
\* object passed to register or of another task's manager changes the
\* manager of no already-registered task.
C26_ManagerNeverShared ==
    /\ [](/\ Len(managers.task) = Len(tasks)
          /\ Cardinality(TaskManagers) = Len(tasks)
          /\ managers.wf \notin TaskManagers)
    /\ [][/\ (Len(tasks') > Len(tasks)) =>
               /\ managers'.task[Len(tasks')] \notin 1..Len(managers.heap)
               /\ \A id \in 1..Len(managers.heap) : managers'.heap[id] = managers.heap[id]
               /\ tot_ncpus(managers', Len(tasks'))
                    = managers.heap[IF args'.manager = None THEN managers.wf
                                    ELSE args'.manager[1]]
          /\ last'.op = "set_ncpus" =>
               \A i \in 1..Len(tasks) :
                  managers.task[i] # last'.val => tot_ncpus(managers', i) = tot_ncpus(managers, i)]_vars

\* Two tasks copied from the same object are configured differently after
\* one of the objects was changed.
C26_Witness ==
    /\ last.op = "set_ncpus" /\ Len(tasks) = 2
    /\ tot_ncpus(managers, 1) # tot_ncpus(managers, 2)
    /\ managers.heap[managers.wf] # tot_ncpus(managers, 1)

----------------------------------------------------------------------------
(* WorkFlowResults. The object is a dict: task_results holds what it was   *)
(* built with, exceptions is the list under the reserved key _exceptions.  *)
(* keyed tells whether task_results is the dict name -> results built by   *)
(* get_results or a list of results handed to the constructor.             *)

MaxPush == 2    \* exceptions passed to one call of push_exceptions
MaxList == 3    \* longest exception list assert_valid may still extend

Msgs == {"a", "b"}

\* Exception objects: distinct objects may carry the same message.
Excs == [obj : {"e1", "e2"}, msg : Msgs]

\* str(exc)
Str(exc) == exc.msg

\* newstr not in self.exceptions
NotIn_always(newstr, list) == TRUE

NotIn(newstr, list) == \A k \in 1..Len(list) : list[k] # newstr

\* for exc in exceptions: if str(exc) not in self.exceptions: append it
RECURSIVE PushAll(_, _, _)
PushAll(list, excs, i) ==
    IF i > Len(excs) THEN list
    ELSE PushAll(IF NotIn(Str(excs[i]), list) THEN Append(list, Str(excs[i])) ELSE list,
                 excs, i + 1)

\* The results of one task: its name and the messages it recorded.
TaskResults(id, failed) ==
    [name |-> TaskWorkdir(id), exceptions |-> IF failed THEN <<"a">> ELSE <<>>]

\* WorkFlowResults.__init__: the reserved key is set to [] only when absent.
WorkFlowResults(keyed, task_results, given) ==
    [keyed |-> keyed, task_results |-> task_results,
     exceptions |-> IF given = None THEN <<>> ELSE given[1]]

\* self[_EXC_KEY] += tres.assert_valid(), for each tres in turn
RECURSIVE Extend(_, _, _)
Extend(list, task_results, i) ==
    IF i > Len(task_results) THEN list
    ELSE Extend(list \o task_results[i].exceptions, task_results, i + 1)

\* BaseWorkflow.get_results():
\* WorkFlowResults(task_results={task.name: task.results for task in self})
get_results ==
    /\ results' = WorkFlowResults(TRUE,
                     [i \in 1..Len(tasks) |->
                         TaskResults(tasks[i].task_id, tasks[i].status = S_ERROR)],
                     None)
    /\ last' = Ret("get_results", "WorkFlowResults", Len(tasks), FALSE, {})
    /\ promoted' = {}
    /\ UNCHANGED <<tasks, links_dict, other>>

NextGetResults ==
    \/ /\ Len(tasks) < MaxTasks
       /\ register({})
       /\ UNCHANGED <<iterVars, convVars, results>>
    \/ \E i \in 1..Len(tasks) : task_start(i) /\ UNCHANGED <<iterVars, convVars, objVars>>
    \/ \E i \in 1..Len(tasks) : task_check_status(i) /\ UNCHANGED <<iterVars, convVars, objVars>>
    \/ get_results /\ UNCHANGED <<iterVars, convVars, managers>>

SpecGetResults == Init /\ [][NextGetResults]_vars

\* C22: when some task of a Workflow has ended in the ERROR branch,
\* get_results does not raise because of that task and returns a results
\* object whose exception list contains an entry recording that failure.
C22_FailureIsInExceptionList ==
    (last.op = "get_results" /\ \E i \in 1..Len(tasks) : tasks[i].status = S_ERROR) =>
        /\ last.kind = "WorkFlowResults"
        /\ Len(results.exceptions) > 0

\* WorkFlowResults.push_exceptions(*exceptions), called with args
push_exceptions ==
    /\ results' = [results EXCEPT !.exceptions = PushAll(@, args, 1)]
    /\ last' = Ret("push_exceptions", "none", Len(args), FALSE, {})
    /\ UNCHANGED <<tasks, links_dict, other, promoted>>

\* WorkFlowResults.assert_valid(): iterating the dict built by get_results
\* yields the task names, which have no assert_valid.
assert_valid ==
    /\ Len(results.exceptions) <= MaxList
    /\ IF results.keyed /\ Len(results.task_results) > 0
       THEN /\ last' = Ret("assert_valid", "AttributeError", 0, FALSE, {})
            /\ UNCHANGED results
       ELSE /\ results' = [results EXCEPT !.exceptions = Extend(@, results.task_results, 1)]
            /\ last' = Ret("assert_valid", "list", Len(results'.exceptions), FALSE, {})
    /\ UNCHANGED <<tasks, links_dict, other, promoted>>

\* The state after WorkFlowResults(task_results=..., _exceptions=...) was
\* built, by get_results or by a caller, with the exceptions to push next.
InitResults ==
    /\ NoTasks
    /\ outcome = <<>>
    /\ \E n \in 0..MaxTasks, keyed \in BOOLEAN :
       \E failed \in [1..n -> BOOLEAN] :
       \E given \in {None} \cup {Some(l) : l \in SeqsUpTo(Msgs, MaxPush)} :
          /\ ~(keyed /\ given # None)
          /\ results = WorkFlowResults(keyed,
                          [i \in 1..n |-> TaskResults(i - 1, failed[i])], given)
    /\ args \in SeqsUpTo(Excs, MaxPush) \ {<<>>}

NextResults ==
    \/ push_exceptions /\ UNCHANGED <<iterVars, convVars, managers>>
    \/ assert_valid /\ UNCHANGED <<iterVars, convVars, managers>>

SpecResults == InitResults /\ [][NextResults]_vars

\* C23: after any sequence of WorkFlowResults operations (construction,
\* push_exceptions with one or several exceptions, assert_valid), the list
\* under the reserved exceptions key contains no two equal strings.
C23_ExceptionListHasNoDuplicates ==
    \A j, k \in 1..Len(results.exceptions) :
        j # k => results.exceptions[j] # results.exceptions[k]

Listed(list) == {list[k] : k \in 1..Len(list)}

Pushed == {Str(args[k]) : k \in 1..Len(args)}

\* C24: push_exceptions with an exception whose string form equals an entry
\* already in the exception list leaves the list unchanged (same entries,
\* same order), also when the exceptions are distinct objects; a string
\* form that is new is appended once at the end, after all existing entries.
C24_PushDedupsByString ==
    [][last'.op = "push_exceptions" =>
         /\ Len(results'.exceptions) >= Len(results.exceptions)
         /\ SubSeq(results'.exceptions, 1, Len(results.exceptions)) = results.exceptions
         /\ Pushed \subseteq Listed(results.exceptions) =>
               results'.exceptions = results.exceptions
         /\ (Len(args) = 1 /\ Str(args[1]) \notin Listed(results.exceptions)) =>
               results'.exceptions = Append(results.exceptions, Str(args[1]))
         /\ Listed(results'.exceptions) = Listed(results.exceptions) \cup Pushed
         /\ Len(results'.exceptions) - Len(results.exceptions)
               = Cardinality(Pushed \ Listed(results.exceptions))
         /\ UNCHANGED <<results.task_results, results.keyed>>]_vars

\* Two distinct exception objects with the same message were pushed on a
\* list that already held that message after another one: nothing changed.
C24_Witness ==
    /\ last.op = "push_exceptions" /\ Len(args) = 2
    /\ args[1].obj # args[2].obj /\ Str(args[1]) = "b" /\ Str(args[2]) = "b"
    /\ results.exceptions = <<"a", "b">>

----------------------------------------------------------------------------
(* Order of the two loops of check_status *)

\* The calls of check_status alone, between registrations and task starts.
NextRefresh ==
    \/ /\ Len(tasks) < MaxTasks
       /\ \E links \in SUBSET HeldLinks : register(links)
       /\ UNCHANGED <<iterVars, convVars, results>>
    \/ check_status /\ UNCHANGED <<iterVars, convVars, objVars>>
    \/ \E i \in 1..Len(tasks) : task_start(i) /\ UNCHANGED <<iterVars, convVars, objVars>>

SpecRefresh == Init /\ [][NextRefresh]_vars

\* C28: within one call of check_status every task is refreshed before any
\* promotion is decided: a task is set to READY in the call only if every
\* upstream status is OK after the refreshes of that same call, a task left
\* at or below SUB has an upstream status that is not OK after them, and
\* every task that is not promoted shows its refreshed status.
C28_PromotionsSeeRefreshedStatuses ==
    [][last'.op = "check_status" =>
         \A i \in 1..Len(tasks) :
            /\ tasks[i].task_id \in promoted' =>
                  /\ tasks'[i].status = S_READY
                  /\ \A l \in tasks[i].links : LinkStatus(tasks', l) = S_OK
            /\ tasks[i].task_id \notin promoted' =>
                  /\ tasks'[i].status \in RefreshChoices(tasks[i])
                  /\ tasks'[i].status <= S_SUB =>
                        \E l \in tasks[i].links : LinkStatus(tasks', l) # S_OK]_vars

\* A task was promoted in a call that left its producer, a task of the same
\* Workflow, at OK, while another task is still waiting for a producer.
C28_Witness ==
    /\ last.op = "check_status"
    /\ \E i \in Ids : /\ tasks[i].task_id \in promoted
                      /\ \E l \in tasks[i].links : l.wf = "self" /\ LinkStatus(tasks, l) = S_OK
    /\ Len(tasks) = 2

----------------------------------------------------------------------------
(* Workflow.start and the two submit_tasks loops *)

\* A direct call of register on a plain Workflow, outside submit_tasks.
wf_register ==
    /\ pc \in {"wf_idle", "wf_done"}
    /\ Len(tasks) < MaxTasks
    /\ \E links \in SUBSET HeldLinks : register(links)
    /\ UNCHANGED iterVars

\* start(): build, _setup, then submit_tasks is entered: for task in self
wf_submit_tasks ==
    /\ pc \in {"wf_idle", "wf_done"}
    /\ run.n < MaxRuns
    /\ IF Len(tasks) = 0
       THEN pc' = "wf_done" /\ run' = [run EXCEPT !.n = @ + 1, !.started = 0,
                                                   !.result = "normal"]
       ELSE pc' = "wf_start" /\ run' = [run EXCEPT !.n = @ + 1, !.started = 0,
                                                    !.result = "running"]
    /\ UNCHANGED <<schedVars, niter, max_niter, generator>>

\* task.start() on the next task of the iteration over self
wf_start ==
    /\ pc = "wf_start"
    /\ tasks' = TaskStart(tasks, run.started + 1)
    /\ run' = [run EXCEPT !.started = @ + 1]
    /\ pc' = "wf_wait"
    /\ UNCHANGED <<links_dict, other, promoted, last, niter, max_niter, generator>>

\* task.wait() returns; the iteration goes to the next task or ends
wf_wait ==
    /\ pc = "wf_wait"
    /\ tasks' \in TaskWait(tasks, run.started)
    /\ IF run.started < Len(tasks)
       THEN pc' = "wf_start" /\ UNCHANGED run
       ELSE pc' = "wf_done" /\ run' = Ended("normal")
    /\ UNCHANGED <<links_dict, other, promoted, last, niter, max_niter, generator>>

\* The object is a plain Workflow (pc "wf_idle", without the attributes of
\* the iteration) or an IterativeWork (pc "idle").
InitSubmit ==
    /\ tasks = <<>>
    /\ links_dict = <<>>
    /\ other = S_INIT
    /\ promoted = {}
    /\ last = Ret("init", "none", NoTask, FALSE, {})
    /\ niter = 0
    /\ \/ pc = "wf_idle" /\ max_niter = 0 /\ generator = 0
       \/ pc = "idle" /\ max_niter \in -1..MaxBudget /\ generator \in 0..MaxGen
    /\ run = [n |-> 0, direct |-> 0, registered |-> 0, started |-> 0, result |-> "none",
              exit |-> "none"]
    /\ args = <<>>
    /\ outcome = <<>>
    /\ managers = InitialManagers
    /\ results = <<>>

NextSubmit ==
    \/ wf_register /\ UNCHANGED <<convVars, results>>
    \/ wf_submit_tasks /\ UNCHANGED <<convVars, objVars>>
    \/ wf_start /\ UNCHANGED <<convVars, objVars>>
    \/ wf_wait /\ UNCHANGED <<convVars, objVars>>
    \/ NextIter

SpecSubmit == InitSubmit /\ [][NextSubmit]_vars

\* C29: Workflow.start with the default submit_tasks starts a task only in a
\* state where every task referenced by its Links has status OK; the task
\* that wait() is blocking on was started in the state shown but for its own
\* status.
C29_StartedOnlyWithLinksOk ==
    pc = "wf_wait" =>
        \A l \in tasks[run.started].links : LinkStatus(tasks, l) = S_OK

\* The tasks whose process is queued or running.
InFlight == {i \in Ids : tasks[i].status \in {S_SUB, S_RUN}}

\* The task the loop at hand has started last.
Current == IF pc \in {"wf_start", "wf_wait", "wf_done"} THEN run.started ELSE Len(tasks)

----------------------------------------------------------------------------
(* A driver loop over fetch_task_to_run *)

\* Tasks registered in the Workflow the driver loop runs over.
MaxChain == 3

\* The links a caller of this Workflow alone can hold: to earlier tasks.
EarlierLinks == {Link("self", k) : k \in 0..(Len(tasks) - 1)}

\* The last call of fetch_task_to_run returned a task / raised StopIteration.
Handed == last.op = "fetch_task_to_run" /\ last.kind = "task"

Exhausted == last.op = "fetch_task_to_run" /\ last.kind = "StopIteration"

\* Tasks are registered before the loop is entered and between two of its
\* rounds, as long as the driver has not been told that the work is over.
drv_register ==
    /\ ~Handed /\ ~Exhausted
    /\ Len(tasks) < MaxChain
    /\ \E links \in SUBSET EarlierLinks : register(links)

\* The driver calls fetch_task_to_run until it raises StopIteration.
drv_fetch ==
    /\ ~Handed /\ ~Exhausted
    /\ fetch_task_to_run
    /\ UNCHANGED managers

\* The driver starts the task it was handed.
drv_start ==
    /\ Handed
    /\ task_start(last.val + 1)
    /\ UNCHANGED managers

NextDriver ==
    \/ drv_register /\ UNCHANGED <<iterVars, convVars, results>>
    \/ drv_fetch /\ UNCHANGED <<iterVars, convVars, results>>
    \/ drv_start /\ UNCHANGED <<iterVars, convVars, results>>

SpecDriver == Init /\ [][NextDriver]_vars

\* C31: fetch_task_to_run never returns a task whose status had already
\* reached SUB or later before the call.
C31_NeverHandedOutTwice ==
    [][(last'.op = "fetch_task_to_run" /\ last'.kind = "task") =>
           tasks[last'.val + 1].status < S_SUB]_vars

\* What the refreshes read when every process that can have ended well has.
FinishedObs(ts) ==
    [i \in 1..Len(ts) |-> IF S_OK \in RefreshChoices(ts[i]) THEN S_OK ELSE ts[i].status]

\* A call of fetch_task_to_run in which every started task is read as OK.
drv_finish ==
    /\ ~Handed /\ ~Exhausted
    /\ \E i \in Ids : tasks[i].proc = "live" /\ tasks[i].status \notin {S_OK, S_ERROR}
    /\ \E r \in {CheckStatus(tasks, FinishedObs(tasks))} :
       \E o \in {FetchOutcome(r.ts)} :
          /\ tasks' = r.ts
          /\ promoted' = r.set
          /\ last' = Ret("fetch_task_to_run", o.kind, o.val, o.warn, {})
    /\ UNCHANGED <<links_dict, other, managers, iterVars, convVars, results>>

\* The driver keeps going, and a Workflow that is polled again and again
\* eventually reads its started tasks as OK.
SpecDriverFair ==
    /\ SpecDriver
    /\ WF_vars(NextDriver)
    /\ SF_vars(drv_finish)

\* No task is ever read as failed.
NoFailure == [](\A i \in Ids : tasks[i].status # S_ERROR)

\* C32, as stated: when no started task fails, fetch_task_to_run eventually
\* signals exhaustion, and at that point every task has status OK.
C32_ExhaustsWithAllOk ==
    /\ NoFailure => <>Exhausted
    /\ [](Exhausted => \A i \in Ids : tasks[i].status = S_OK)

\* C32, amended: when no started task fails, fetch_task_to_run eventually
\* signals exhaustion, and at that point every task is completed (status at
\* least DONE) and none can run; a task may still be at DONE, its status
\* not having been read as OK yet.
C32_ExhaustsWithAllCompleted ==
    /\ NoFailure => <>Exhausted
    /\ [](Exhausted => \A i \in Ids : is_completed(tasks[i]) /\ ~can_run(tasks, i))

\* Exhaustion was signalled on a chain of dependent tasks, one still at DONE.
C32_Witness ==
    /\ Exhausted
    /\ \E i \in Ids : tasks[i].links # {} /\ tasks[i].status = S_OK
    /\ \E i \in Ids : tasks[i].status = S_DONE
    /\ \A i \in Ids : tasks[i].status # S_ERROR

----------------------------------------------------------------------------
(* Range of the index returned by check_conv *)

\* C33: for every non-empty sequence of values, every tol >= 0, every
\* min_numpts >= 0 and every reference value, check_conv in "abs" mode
\* returns either -1 or an index i with 0 <= i <= len(values) - 1 such that
\* every deviation d[j] with j >= i is <= tol.
C33_AbsIndexInsideSequence ==
    (Called /\ args.mode = "abs" /\ NumPts >= 1) =>
        /\ outcome.kind = "value"
        /\ outcome.val # -1 =>
              (outcome.val \in 0..(NumPts - 1) /\ WithinFrom(outcome.val))

============================================================================
